---- MODULE Spec2Model ----
(***************************************************************************)
(* DocuQuery: the Streamlit session (st.session_state), the SessionManager *)
(* operations on it, the OCR / RAG processors and the two handlers of      *)
(* app.py (process_document, display_chat_interface).                      *)
(*                                                                         *)
(* st.session_state is a record whose DOMAIN is the set of keys that       *)
(* exist, so "key in st.session_state" and hasattr(st.session_state, key)  *)
(* are "key \in DOMAIN S".  Python's None is the value None below.  A      *)
(* temperature is kept in tenths (0.2 is 2, 1.5 is 15).  The timestamp and *)
(* message_id of a chat message are not modelled: no operation reads them. *)
(* A call that may raise yields Raise(msg) or Return(v).                    *)
(***************************************************************************)
EXTENDS Integers, Sequences, FiniteSets, TLC

VARIABLES environ, session_state, last

vars == <<environ, session_state, last>>

\* ------------------------------------------------------------------ bounds

\* The longest transcript a chat action may leave.
MaxTurns == 4

\* The longest text given to the markdown stripping.
MaxTextLen == 3

\* ------------------------------------------------------------- python values

None == "<None>"

\* bool(x) of an Optional[str]
Truthy(x) == x # None /\ x # ""

Raise(msg) == [raised |-> TRUE, error |-> msg, value |-> None]

Return(v) == [raised |-> FALSE, error |-> "", value |-> v]

\* How a call that stages the upload in a temporary file ends: result is
\* Raise(msg) or Return(v), temp_files the staging files that exist on disk
\* when the call exits.
Exit(result, temp_files) ==
    [raised |-> result.raised, error |-> result.error, value |-> result.value,
     temp_files |-> temp_files]

RECURSIVE JoinEach(_, _)
\* The joining as it would be if every part were followed by the separator.
JoinEach(parts, sep) ==
    IF parts = <<>> THEN ""
    ELSE parts[1] \o sep \o JoinEach(Tail(parts), sep)

RECURSIVE Join(_, _)
\* sep.join(parts)
Join(parts, sep) ==
    IF parts = <<>> THEN ""
    ELSE IF Len(parts) = 1 THEN parts[1]
    ELSE parts[1] \o sep \o Join(Tail(parts), sep)

\* ------------------------------------------------------------ SessionManager

DefaultTemperature == 2

DefaultMaxTokens == 2048

DefaultUserSettings ==
    [theme |-> "light", temperature |-> DefaultTemperature, max_tokens |-> DefaultMaxTokens]

\* One value for each key initialize_session creates.
SessionDefaults(id) ==
    [chat_history |-> <<>>,
     ocr_results |-> None,
     rag_initialized |-> FALSE,
     session_id |-> id,
     uploaded_files |-> <<>>,
     user_settings |-> DefaultUserSettings]

SessionKeys == DOMAIN SessionDefaults(None)

\* The initialization as it would be if it drew a session_id on every run.
initialize_session_new_id(S, id) ==
    [k \in (DOMAIN S) \cup SessionKeys |->
        IF k \in DOMAIN S /\ k # "session_id" THEN S[k] ELSE SessionDefaults(id)[k]]

\* Each key is created only when it is absent; id is the uuid4 drawn for a
\* missing session_id.
initialize_session(S, id) ==
    [k \in (DOMAIN S) \cup SessionKeys |->
        IF k \in DOMAIN S THEN S[k] ELSE SessionDefaults(id)[k]]

\* dict item assignment: the key is created or overwritten.
DictSet(d, key, value) ==
    [k \in (DOMAIN d) \cup {key} |-> IF k = key THEN value ELSE d[k]]

Message(role, content) == [role |-> role, content |-> content]

add_message(S, role, content) ==
    [S EXCEPT !.chat_history = Append(@, Message(role, content))]

get_chat_history(S) == S.chat_history

RECURSIVE rag_history_from(_, _)
\* The loop "for i in range(0, len(messages) - 1, 2)" from index i on (0-based).
rag_history_from(messages, i) ==
    IF i >= Len(messages) - 1 THEN <<>>
    ELSE (IF i + 1 < Len(messages)
             /\ messages[i + 1].role = "user"
             /\ messages[i + 2].role = "assistant"
          THEN << <<messages[i + 1].content, messages[i + 2].content>> >>
          ELSE <<>>)
         \o rag_history_from(messages, i + 2)

RECURSIVE rag_history_short(_, _)
\* The loop with its bound one too low: "range(0, len(messages) - 2, 2)".
rag_history_short(messages, i) ==
    IF i >= Len(messages) - 2 THEN <<>>
    ELSE (IF messages[i + 1].role = "user" /\ messages[i + 2].role = "assistant"
          THEN << <<messages[i + 1].content, messages[i + 2].content>> >>
          ELSE <<>>)
         \o rag_history_short(messages, i + 2)

get_chat_history_for_rag_short(S) == rag_history_short(S.chat_history, 0)

get_chat_history_for_rag(S) == rag_history_from(S.chat_history, 0)

\* The clearing as it would be if it ended the document session as well.
clear_chat_history_and_document(S) ==
    DictSet(DictSet(S, "chat_history", <<>>), "rag_initialized", FALSE)

\* "st.session_state.chat_history = []": the key is created where it is absent.
clear_chat_history(S) == DictSet(S, "chat_history", <<>>)

\* An assignment to an attribute of st.session_state creates the key where
\* it is absent.
store_ocr_results(S, results) == DictSet(S, "ocr_results", results)

get_ocr_results(S) == S.ocr_results

set_rag_initialized(S, value) == DictSet(S, "rag_initialized", value)

is_rag_initialized(S) == S.rag_initialized

\* uploaded_files[file_id] = file_info, on the dict initialize_session made.
store_uploaded_file(S, file_id, file_info) ==
    [S EXCEPT !.uploaded_files = DictSet(@, file_id, file_info)]

get_uploaded_files(S) == S.uploaded_files

update_user_setting(S, setting_name, value) ==
    IF "user_settings" \in DOMAIN S
    THEN [S EXCEPT !.user_settings = DictSet(@, setting_name, value)]
    ELSE S

get_user_setting(S, setting_name, default) ==
    IF "user_settings" \in DOMAIN S /\ setting_name \in DOMAIN S.user_settings
    THEN S.user_settings[setting_name]
    ELSE default

\* -------------------------------------------------------------- OCRProcessor

\* hasattr(obj, name) of an attribute-style response; a dict has none of the
\* attributes pages, text, document, content.
HasAttr(obj, name) == obj.repr = "object" /\ name \in DOMAIN obj.fields

\* name in d, for a response that is a dict
HasKey(obj, name) == obj.repr = "dict" /\ name \in DOMAIN obj.fields

RECURSIVE PageTexts(_)
\* The loop over the pages: a page's markdown, else its text, else nothing.
PageTexts(pages) ==
    IF pages = <<>> THEN <<>>
    ELSE (IF "markdown" \in DOMAIN Head(pages) THEN <<Head(pages).markdown>>
          ELSE IF "text" \in DOMAIN Head(pages) THEN <<Head(pages).text>>
          ELSE <<>>)
         \o PageTexts(Tail(pages))

\* str(type(ocr_response)) of the f-string: the class of the response.
TypeOf(r) == "<class '" \o r.type \o "'>"

\* The message of the ValueError raised on a response no branch recognises.
UnrecognizedResponse(r) ==
    "Could not extract text from OCR response. Response type: " \o TypeOf(r)

\* The decoding of an OCR response in process_image and process_pdf.
DecodeOcrResponse(r) ==
    IF HasAttr(r, "pages") /\ PageTexts(r.fields.pages) # <<>>
    THEN Return(Join(PageTexts(r.fields.pages), "\n\n"))
    ELSE IF HasAttr(r, "text") THEN Return(r.fields.text)
    ELSE IF HasAttr(r, "document") /\ "text" \in DOMAIN r.fields.document
    THEN Return(r.fields.document.text)
    ELSE IF HasAttr(r, "content") THEN Return(r.fields.content)
    ELSE IF HasKey(r, "text") THEN Return(r.fields.text)
    ELSE IF HasKey(r, "document") /\ "text" \in DOMAIN r.fields.document
    THEN Return(r.fields.document.text)
    ELSE IF HasKey(r, "content") THEN Return(r.fields.content)
    ELSE IF HasKey(r, "pages") /\ PageTexts(r.fields.pages) # <<>>
    THEN Return(Join(PageTexts(r.fields.pages), "\n\n"))
    ELSE Raise(UnrecognizedResponse(r))

\* extract_text_from_ocr_response: the same decoding as a method of its own
\* (its extra logging reads len(pages) of a response that has pages, which
\* are lists here).
extract_text_from_ocr_response(ocr_response) == DecodeOcrResponse(ocr_response)

\* OCRProcessor(): the key comes from the environment; env is the set of the
\* names that hold a non-empty value ("not self.api_key" is true of an unset
\* name and of an empty value alike).
OCRProcessor_init(env) ==
    IF "MISTRAL_API_KEY" \in env THEN Return("OCRProcessor")
    ELSE Raise("Mistral API key is required. Set it as an environment variable or pass it directly.")

\* "with tempfile.NamedTemporaryFile(delete=False, suffix=...) as temp_file":
\* the file is created, then the upload is read and written into it.  upload
\* is what these two calls do: "ok", or the read raises, or the write raises.
\* The with block closes the file and, delete being False, leaves it on disk.
NamedTemporaryFile(upload, suffix) ==
    LET temp_file_path == "tmp" \o suffix
    IN [raised |-> upload # "ok",
        error |-> CASE upload = "read_raises" -> "upload read error"
                    [] upload = "write_raises" -> "No space left on device"
                    [] OTHER -> "",
        temp_file_path |-> temp_file_path,
        temp_files |-> {temp_file_path}]

\* "Path(temp_file_path).unlink(missing_ok=True)"
unlink(temp_files, temp_file_path) == temp_files \ {temp_file_path}

\* image_file.ocr is what the Mistral client does for this file: it raises,
\* or it answers with a response.  The staging is outside the try statement,
\* the client calls and the decoding are inside it.
process_image(image_file) ==
    LET temp_file == NamedTemporaryFile(image_file.upload, ".png")
    IN IF temp_file.raised
       THEN Exit(Raise(temp_file.error), temp_file.temp_files)
       ELSE Exit(IF image_file.ocr.raises THEN Raise(image_file.ocr.error)
                 ELSE DecodeOcrResponse(image_file.ocr.response),
                 unlink(temp_file.temp_files, temp_file.temp_file_path))

process_pdf(pdf_file) ==
    LET temp_file == NamedTemporaryFile(pdf_file.upload, ".pdf")
    IN IF temp_file.raised
       THEN Exit(Raise(temp_file.error), temp_file.temp_files)
       ELSE Exit(IF pdf_file.ocr.raises THEN Raise(pdf_file.ocr.error)
                 ELSE DecodeOcrResponse(pdf_file.ocr.response),
                 unlink(temp_file.temp_files, temp_file.temp_file_path))

\* str.lower() on the file types used here
Lower(s) == CASE s = "PDF" -> "pdf" [] s = "Image" -> "image" [] OTHER -> s

\* The character of s at position i (from 1), "" past the end.
CharAt(s, i) == IF 1 <= i /\ i <= Len(s) THEN SubSeq(s, i, i) ELSE ""

\* The character classes of the patterns: \s, \d, [a-z], [-*+].
Whitespace == {" ", "\n", "\t", "\r", "\f"}

Digits == {"0", "1", "2", "3", "4", "5", "6", "7", "8", "9"}

LowerCase ==
    {"a", "b", "c", "d", "e", "f", "g", "h", "i", "j", "k", "l", "m", "n", "o", "p",
     "q", "r", "s", "t", "u", "v", "w", "x", "y", "z"}

Bullets == {"-", "*", "+"}

\* The grave accent of the code fences and of the inline code.  A string of
\* this language cannot hold that character: the texts, and with them the
\* patterns, have "~" in its place, a character no pattern mentions.
BackTick == "~"

RECURSIVE RunOf(_, _, _)
\* The number of consecutive characters of s from position i on that are in
\* the class: what a greedy "[class]*" takes.
RunOf(s, i, class) ==
    IF CharAt(s, i) \in class THEN 1 + RunOf(s, i + 1, class) ELSE 0

RECURSIVE RunOfNot(_, _, _)
\* The same for a negated class "[^c]*".
RunOfNot(s, i, c) ==
    IF i <= Len(s) /\ CharAt(s, i) # c THEN 1 + RunOfNot(s, i + 1, c) ELSE 0

\* "^" under re.MULTILINE: the start of the text or just after a newline.
LineStart(s, i) == i = 1 \/ CharAt(s, i - 1) = "\n"

\* The seven patterns of extract_text, in its order.  Match(n, s, i) is the
\* position just after the match of pattern n that starts at position i, and
\* 0 when the pattern does not match there.
\*   1  #{1,6}\s+                     2  \*\*|\*|__|\|
\*   3  \[([^\]]+)\]\([^)]+\)          4  ~~~[a-z]*\n|~~~
\*   5  ~([^~]+)~                     6  ^\s*[-*+]\s+
\*   7  ^\s*\d+\.\s+
\* (patterns 4 and 5 written with BackTick, as the texts are).
Match(n, s, i) ==
    CASE n = 1 ->
           LET h == RunOf(s, i, {"#"})
               w == RunOf(s, i + h, Whitespace)
           IN IF 1 <= h /\ h <= 6 /\ w >= 1 THEN i + h + w ELSE 0
      [] n = 2 ->
           IF CharAt(s, i) = "*" THEN (IF CharAt(s, i + 1) = "*" THEN i + 2 ELSE i + 1)
           ELSE IF CharAt(s, i) = "_" /\ CharAt(s, i + 1) = "_" THEN i + 2
           ELSE IF CharAt(s, i) = "|" THEN i + 1
           ELSE 0
      [] n = 3 ->
           LET a == RunOfNot(s, i + 1, "]")
               b == RunOfNot(s, i + a + 3, ")")
           IN IF /\ CharAt(s, i) = "["
                 /\ a >= 1
                 /\ CharAt(s, i + a + 1) = "]"
                 /\ CharAt(s, i + a + 2) = "("
                 /\ b >= 1
                 /\ CharAt(s, i + a + b + 3) = ")"
              THEN i + a + b + 4 ELSE 0
      [] n = 4 ->
           LET k == RunOf(s, i + 3, LowerCase)
           IN IF i + 2 <= Len(s) /\ SubSeq(s, i, i + 2) = BackTick \o BackTick \o BackTick
              THEN (IF CharAt(s, i + 3 + k) = "\n" THEN i + k + 4 ELSE i + 3)
              ELSE 0
      [] n = 5 ->
           LET a == RunOfNot(s, i + 1, BackTick)
           IN IF CharAt(s, i) = BackTick /\ a >= 1 /\ CharAt(s, i + a + 1) = BackTick
              THEN i + a + 2 ELSE 0
      [] n = 6 ->
           LET w == RunOf(s, i, Whitespace)
               v == RunOf(s, i + w + 1, Whitespace)
           IN IF LineStart(s, i) /\ CharAt(s, i + w) \in Bullets /\ v >= 1
              THEN i + w + v + 1 ELSE 0
      [] n = 7 ->
           LET w == RunOf(s, i, Whitespace)
               d == RunOf(s, i + w, Digits)
               v == RunOf(s, i + w + d + 1, Whitespace)
           IN IF LineStart(s, i) /\ d >= 1 /\ CharAt(s, i + w + d) = "." /\ v >= 1
              THEN i + w + d + v + 1 ELSE 0

\* What the match of pattern n from i to just before e is replaced by: group 1
\* for the link and the inline code, nothing for the others.
Replacement(n, s, i, e) ==
    CASE n = 3 -> SubSeq(s, i + 1, i + RunOfNot(s, i + 1, "]"))
      [] n = 5 -> SubSeq(s, i + 1, e - 2)
      [] OTHER -> ""

RECURSIVE re_sub_from(_, _, _)
\* re.sub of pattern n on s from position i on: the matches are taken left to
\* right and do not overlap.
re_sub_from(n, s, i) ==
    IF i > Len(s) THEN ""
    ELSE LET e == Match(n, s, i)
         IN IF e > 0 THEN Replacement(n, s, i, e) \o re_sub_from(n, s, e)
            ELSE CharAt(s, i) \o re_sub_from(n, s, i + 1)

re_sub(n, s) == re_sub_from(n, s, 1)

\* The seven substitutions of "if strip_markdown and text:", in their order.
strip_markdown_text(text) ==
    re_sub(7, re_sub(6, re_sub(5, re_sub(4, re_sub(3, re_sub(2, re_sub(1, text)))))))

\* The result of the processor, its text stripped when there is one.
Stripped(extracted, strip_markdown) ==
    IF ~extracted.raised /\ strip_markdown /\ Truthy(extracted.value)
    THEN [extracted EXCEPT !.value = strip_markdown_text(@)]
    ELSE extracted

\* extract_text(file, file_type, strip_markdown)
extract_text(file, file_type, strip_markdown) ==
    IF Lower(file_type) = "pdf" THEN Stripped(process_pdf(file), strip_markdown)
    ELSE IF Lower(file_type) \in {"image", "jpg", "jpeg", "png", "gif", "bmp", "tiff"}
    THEN Stripped(process_image(file), strip_markdown)
    ELSE Exit(Raise("Unsupported file type: " \o file_type), {})

\* -------------------------------------------------------------- RAGProcessor

LlmTemperature == 2

LlmMaxOutputTokens == 2048

\* RAGProcessor(): the LLM is configured here, once, with fixed values.
RAGProcessor_init(env) ==
    IF "GOOGLE_API_KEY" \in env
    THEN Return([llm |-> [temperature |-> LlmTemperature,
                          max_output_tokens |-> LlmMaxOutputTokens],
                 vector_store |-> None,
                 retrieval_chain |-> None])
    ELSE Raise("Google API key is required. Set it as an environment variable or pass it directly.")

RECURSIVE PdfPagesText(_)
\* "text += page.extract_text() + '\n\n'" over the pages of the reader
PdfPagesText(pages) ==
    IF pages = <<>> THEN ""
    ELSE Head(pages) \o "\n\n" \o PdfPagesText(Tail(pages))

\* pdf_file.pdf is what PyPDF2.PdfReader does with the staged file: it raises,
\* or it gives the text of each page.
extract_text_from_pdf(pdf_file) ==
    LET temp_file == NamedTemporaryFile(pdf_file.upload, ".pdf")
    IN IF temp_file.raised
       THEN Exit(Raise(temp_file.error), temp_file.temp_files)
       ELSE Exit(IF pdf_file.pdf.raises THEN Raise(pdf_file.pdf.error)
                 ELSE Return(PdfPagesText(pdf_file.pdf.pages)),
                 unlink(temp_file.temp_files, temp_file.temp_file_path))

RECURSIVE RowText(_)
\* "for cell in row.cells: text += cell.text + ' '"
RowText(cells) ==
    IF cells = <<>> THEN "" ELSE Head(cells) \o " " \o RowText(Tail(cells))

RECURSIVE TableText(_)
\* the rows of one table, each followed by a newline
TableText(rows) ==
    IF rows = <<>> THEN "" ELSE RowText(Head(rows)) \o "\n" \o TableText(Tail(rows))

RECURSIVE TablesText(_)
TablesText(tables) ==
    IF tables = <<>> THEN ""
    ELSE TableText(Head(tables)) \o "\n" \o TablesText(Tail(tables))

RECURSIVE ParagraphsText(_)
ParagraphsText(paragraphs) ==
    IF paragraphs = <<>> THEN ""
    ELSE Head(paragraphs) \o "\n" \o ParagraphsText(Tail(paragraphs))

\* docx_file.doc is what docx.Document(path) does: it raises, or it gives the
\* paragraphs and the tables.
extract_text_from_docx(docx_file) ==
    LET temp_file == NamedTemporaryFile(docx_file.upload, ".docx")
    IN IF temp_file.raised
       THEN Exit(Raise(temp_file.error), temp_file.temp_files)
       ELSE Exit(IF docx_file.doc.raises THEN Raise(docx_file.doc.error)
                 ELSE Return(ParagraphsText(docx_file.doc.paragraphs)
                             \o TablesText(docx_file.doc.tables)),
                 unlink(temp_file.temp_files, temp_file.temp_file_path))

\* How RAGProcessor.process_document ends: it raises or returns True, self is
\* the processor as the call leaves it.
RagExit(result, self, calls) ==
    [raised |-> result.raised, error |-> result.error, value |-> self,
     calls |-> calls]

\* RAGProcessor.process_document(text=text).  build is what the collaborators
\* do: "ok", or the embedding call raises ("embed"), or the chain
\* construction raises ("chain").  The vector store and the chain are named by
\* the text they were built from.  value is the processor as the call leaves
\* it, calls the collaborators' calls it made, in their order.
rag_process_document(self, text, build) ==
    IF ~Truthy(text)
    THEN RagExit(Raise("Either file or text must be provided"), self, <<>>)
    ELSE IF build = "embed"
    THEN RagExit(Raise("Embedding service error"), self,
                 <<"split_text", "FAISS.from_texts">>)
    ELSE IF build = "chain"
    THEN RagExit(Raise("Chain construction error"),
                 [self EXCEPT !.vector_store = text],
                 <<"split_text", "FAISS.from_texts",
                   "ConversationalRetrievalChain.from_llm">>)
    ELSE RagExit(Return(TRUE),
                 [self EXCEPT !.vector_store = text, !.retrieval_chain = text],
                 <<"split_text", "FAISS.from_texts",
                   "ConversationalRetrievalChain.from_llm">>)

\* What the retrieval chain is called with.
LlmCall(self, question, chat_history) ==
    [question |-> question,
     chat_history |-> chat_history,
     index |-> self.retrieval_chain,
     temperature |-> self.llm.temperature,
     max_output_tokens |-> self.llm.max_output_tokens]

NoLlmCall ==
    [question |-> "", chat_history |-> <<>>, index |-> None,
     temperature |-> 0, max_output_tokens |-> 0]

\* RAGProcessor.query.  llm is what the chain does: it raises, or it answers.
\* [raised, error, value (answer, source_documents), call].
rag_query(self, question, chat_history, llm) ==
    IF ~Truthy(self.retrieval_chain)
    THEN [raised |-> TRUE,
          error |-> "No document has been processed. Please process a document first.",
          value |-> None, call |-> NoLlmCall]
    ELSE IF llm.raises
    THEN [raised |-> TRUE, error |-> llm.error, value |-> None,
          call |-> LlmCall(self, question, chat_history)]
    ELSE [raised |-> FALSE, error |-> "",
          value |-> [answer |-> llm.answer, source_documents |-> llm.source_documents],
          call |-> LlmCall(self, question, chat_history)]

\* ----------------------------------------------------------------------- app

\* The outcome of one handler: the session it leaves, what it returned and
\* showed, and what it did on the way.
\*   returned: the handler's return value (FALSE for a handler that returns
\*           nothing);
\*   error:  the message given to st.error ("" when there was none);
\*   status: the labels given to st.status, each with rag_initialized as it
\*           was when the label was set;
\*   branch: the path taken;
\*   call:   what the retrieval chain was called with (NoLlmCall: not called);
\*   pairs:  the value of get_chat_history_for_rag, where it was computed;
\*   temp_files: the staging files of the handler that exist when it returns.
Outcome(S, returned, error, status, branch, call) ==
    [state |-> S, returned |-> returned, error |-> error, status |-> status,
     branch |-> branch, call |-> call, pairs |-> call.chat_history,
     temp_files |-> {}]

StatusEntry(S, label) == [label |-> label, rag_initialized |-> is_rag_initialized(S)]

\* The handler as it would be if a failure reset the session's document.
process_document_except_resets(S, e, status, branch) ==
    Outcome(set_rag_initialized(store_ocr_results(S, None), FALSE), FALSE,
            "Error processing document: " \o e, status, branch, NoLlmCall)

\* "except Exception as e" of process_document: the error is logged and shown,
\* the session is left as the failing statement found it.
process_document_except(S, e, status, branch) ==
    Outcome(S, FALSE, "Error processing document: " \o e, status, branch, NoLlmCall)

\* Line 163 left out: the processor is never stored.
store_rag_processor_forgets(S, rag_processor) == S

\* "st.session_state.rag_processor = rag_processor"
store_rag_processor(S, rag_processor) == DictSet(S, "rag_processor", rag_processor)

\* The indexing as it would be if the session's processor were built in place:
\* a failed build leaves in the session what it had built so far.
process_document_index_in_place(S, env, build, status) ==
    IF Truthy(get_ocr_results(S))
    THEN LET status2 == Append(status, StatusEntry(S, "Initializing RAG system..."))
             made == RAGProcessor_init(env)
             built == rag_process_document(made.value, get_ocr_results(S), build)
         IN IF made.raised
            THEN process_document_except(S, made.error, status2, "indexing_raised")
            ELSE IF built.raised
            THEN process_document_except(store_rag_processor(S, built.value),
                                         built.error, status2, "indexing_raised")
            ELSE LET S2 == store_rag_processor(set_rag_initialized(S, TRUE), built.value)
                 IN Outcome(S2, TRUE, "",
                            Append(status2, StatusEntry(S2, "Document processing complete!")),
                            "complete", NoLlmCall)
    ELSE Outcome(S, FALSE, "", status, "no_text", NoLlmCall)

\* Lines 155-165 of process_document: the index is built from the stored text.
process_document_index(S, env, build, status) ==
    IF Truthy(get_ocr_results(S))
    THEN LET status2 == Append(status, StatusEntry(S, "Initializing RAG system..."))
             made == RAGProcessor_init(env)
             built == rag_process_document(made.value, get_ocr_results(S), build)
         IN IF made.raised
            THEN process_document_except(S, made.error, status2, "indexing_raised")
            ELSE IF built.raised
            THEN process_document_except(S, built.error, status2, "indexing_raised")
            ELSE LET S2 == store_rag_processor(set_rag_initialized(S, TRUE), built.value)
                 IN Outcome(S2, TRUE, "",
                            Append(status2, StatusEntry(S2, "Document processing complete!")),
                            "complete", NoLlmCall)
    ELSE Outcome(S, FALSE, "", status, "no_text", NoLlmCall)

\* process_document(file, file_type).  file is what the extractors find in the
\* upload: file.upload for the staging, file.ocr for the OCR service, file.doc
\* for the docx parser.
process_document(S, env, file, file_type, build) ==
    LET status == <<StatusEntry(S, "Extracting text with OCR...")>>
    IN IF file_type \in {"image", "pdf"}
       THEN LET made == OCRProcessor_init(env)
                extracted == extract_text(file, file_type, FALSE)
            IN IF made.raised
               THEN process_document_except(S, made.error, status, "extraction_raised")
               ELSE IF extracted.raised
               THEN [process_document_except(S, extracted.error, status,
                                             "extraction_raised")
                         EXCEPT !.temp_files = extracted.temp_files]
               ELSE LET S1 == store_ocr_results(S, extracted.value)
                    IN [process_document_index(S1, env, build,
                            Append(status, StatusEntry(S1, "OCR processing complete!")))
                            EXCEPT !.temp_files = extracted.temp_files]
       ELSE IF file_type = "docx"
       THEN LET made == RAGProcessor_init(env)
                extracted == extract_text_from_docx(file)
            IN IF made.raised
               THEN process_document_except(S, made.error, status, "extraction_raised")
               ELSE IF extracted.raised
               THEN [process_document_except(S, extracted.error, status,
                                             "extraction_raised")
                         EXCEPT !.temp_files = extracted.temp_files]
               ELSE LET S1 == store_ocr_results(S, extracted.value)
                    IN [process_document_index(S1, env, build,
                            Append(status, StatusEntry(S1, "Text extraction complete!")))
                            EXCEPT !.temp_files = extracted.temp_files]
       ELSE process_document_index(S, env, build, status)

NotReadyMessage == "Please upload and process a document first."

ErrorMessage(e) == "Error generating response: " \o e

\* The handler as it would be if it showed the error without recording it.
chat_except_drops(S, e, branch, call) ==
    Outcome(S, FALSE, ErrorMessage(e), <<>>, branch, call)

\* "except Exception as e" of the chat: the error is shown and recorded as an
\* assistant message.
chat_except(S, e, branch, call) ==
    Outcome(add_message(S, "assistant", ErrorMessage(e)), FALSE, ErrorMessage(e),
            <<>>, branch, call)

\* The try block of the chat: the query, then the rendering of the answer and
\* of the source documents.  llm is what the retrieval chain does, render
\* names the st call that raises ("write": st.write(answer); "sources": the
\* rendering of the source documents; "none").
chat_query(S, user_input, llm, render) ==
    LET response == rag_query(S.rag_processor, user_input,
                              get_chat_history_for_rag(S), llm)
    IN IF response.raised
       THEN chat_except(S, response.error, "query_raised", response.call)
       ELSE IF render = "write"
       THEN chat_except(S, "render error", "write_raised", response.call)
       ELSE LET S2 == add_message(S, "assistant", response.value.answer)
            IN IF response.value.source_documents # <<>> /\ render = "sources"
               THEN chat_except(S2, "render error", "sources_raised", response.call)
               ELSE Outcome(S2, FALSE, "", <<>>, "answered", response.call)

\* The else branch as it would be if the notice were shown and not recorded.
chat_not_ready_silent(S) == Outcome(S, FALSE, "", <<>>, "not_ready", NoLlmCall)

\* The else branch of the chat: no index to ask.
chat_not_ready(S) ==
    Outcome(add_message(S, "assistant", NotReadyMessage), FALSE, "", <<>>,
            "not_ready", NoLlmCall)

\* The chat as it would be if it asked a processor of its own making whenever
\* the session is not ready.
chat_input_own_processor(S, user_input, llm, render) ==
    IF ~Truthy(user_input) THEN Outcome(S, FALSE, "", <<>>, "no_input", NoLlmCall)
    ELSE LET S1 == add_message(S, "user", user_input)
         IN IF is_rag_initialized(S1) /\ "rag_processor" \in DOMAIN S1
            THEN chat_query(S1, user_input, llm, render)
            ELSE chat_query(
                     store_rag_processor(S1, RAGProcessor_init({"GOOGLE_API_KEY"}).value),
                     user_input, llm, render)

\* "if user_input:" of display_chat_interface, the same code in both layouts.
chat_input(S, user_input, llm, render) ==
    IF ~Truthy(user_input) THEN Outcome(S, FALSE, "", <<>>, "no_input", NoLlmCall)
    ELSE LET S1 == add_message(S, "user", user_input)
         IN IF is_rag_initialized(S1) /\ "rag_processor" \in DOMAIN S1
            THEN chat_query(S1, user_input, llm, render)
            ELSE chat_not_ready(S1)

\* display_chat_interface: the layout setting chooses the branch.
display_chat_interface(S, user_input, llm, render) ==
    IF get_user_setting(S, "layout", "side-by-side") = "side-by-side"
    THEN chat_input(S, user_input, llm, render)
    ELSE chat_input(S, user_input, llm, render)

\* ------------------------------------------------------------ the inputs

SessionIds == {"sid-1", "sid-2"}

\* The keys the environment holds: any of the two may be missing.
Environments == SUBSET {"MISTRAL_API_KEY", "GOOGLE_API_KEY"}

\* The class of the attribute-style response the OCR client returns.
OcrResponseClass == "mistralai.models.ocrresponse.OCRResponse"

ObjectResponse(fields) ==
    [repr |-> "object", type |-> OcrResponseClass, fields |-> fields]

DictResponse(fields) == [repr |-> "dict", type |-> "dict", fields |-> fields]

OcrAnswers(response) == [raises |-> FALSE, error |-> "", response |-> response]

OcrRaises == [raises |-> TRUE, error |-> "OCR service error", response |-> None]

\* What the OCR service does with an uploaded image or PDF.
OcrOutcomes ==
    {OcrRaises,
     OcrAnswers(ObjectResponse([pages |-> <<[markdown |-> "T1"]>>])),
     OcrAnswers(DictResponse([content |-> ""])),
     OcrAnswers(ObjectResponse([usage |-> "1 page"]))}

DocRaises == [raises |-> TRUE, error |-> "Package not found", paragraphs |-> <<>>,
              tables |-> <<>>]

DocParses(paragraphs, tables) ==
    [raises |-> FALSE, error |-> "", paragraphs |-> paragraphs, tables |-> tables]

\* What python-docx finds in an uploaded Word document.
DocOutcomes == {DocRaises, DocParses(<<"T3">>, <<>>), DocParses(<<>>, <<>>)}

FileTypes == {"image", "pdf", "docx", "txt"}

\* What reading the upload and writing it into the staging file does.
Uploads == {"ok", "read_raises", "write_raises"}

UploadedFile(upload, ocr, doc) == [upload |-> upload, ocr |-> ocr, doc |-> doc]

\* The uploads of one declared type: each outcome of the extractor on a file
\* that is staged, and the files whose staging fails.
FilesFor(file_type) ==
    IF file_type = "docx"
    THEN {UploadedFile("ok", OcrRaises, d) : d \in DocOutcomes}
         \cup {UploadedFile(u, OcrRaises, DocRaises) : u \in Uploads \ {"ok"}}
    ELSE IF file_type \in {"image", "pdf"}
    THEN {UploadedFile("ok", o, DocRaises) : o \in OcrOutcomes}
         \cup {UploadedFile(u, OcrRaises, DocRaises) : u \in Uploads \ {"ok"}}
    ELSE {UploadedFile("ok", OcrRaises, DocRaises)}

BuildOutcomes == {"ok", "embed", "chain"}

Questions == {"q1"}

LlmRaises == [raises |-> TRUE, error |-> "LLM service error", answer |-> "",
              source_documents |-> <<>>]

LlmAnswers(answer, source_documents) ==
    [raises |-> FALSE, error |-> "", answer |-> answer,
     source_documents |-> source_documents]

LlmOutcomes == {LlmRaises, LlmAnswers("a1", <<"chunk">>), LlmAnswers("a1", <<>>)}

Renders == {"none", "write", "sources"}

SettingNames == {"temperature", "max_tokens", "layout"}

\* The values the sidebar's sliders and radio offer.
SidebarValues(name) ==
    IF name = "temperature" THEN {2, 7}
    ELSE IF name = "max_tokens" THEN {2048, 512}
    ELSE {"side-by-side", "stacked"}

\* The values a caller of update_user_setting may pass.
SettingValues(name) ==
    IF name = "temperature" THEN {15}
    ELSE IF name = "max_tokens" THEN {8192}
    ELSE {"grid"}

\* The files a caller of store_uploaded_file may record.
FileIds == {"f1"}

FileInfos == {[name |-> "a.pdf"]}

\* The texts a caller of store_ocr_results may pass.
StoredTexts == {"T1"}

Roles == {"user", "assistant"}

Contents == {"What is X?", "X is Y."}

\* The longest transcript add_message is called on, in SpecStore.
MaxMessages == 4

\* ------------------------------------------------------- the state machine

\* What the last operation was and what came of it.
Last(op, input, out) ==
    [op |-> op, input |-> input, returned |-> out.returned, error |-> out.error,
     status |-> out.status, branch |-> out.branch, call |-> out.call,
     pairs |-> out.pairs, temp_files |-> out.temp_files]

NoOutcome == Outcome(<<>>, FALSE, "", <<>>, "", NoLlmCall)

\* Before the first script run st.session_state holds no key.
Init ==
    /\ environ \in Environments
    /\ session_state = [k \in {} |-> None]
    /\ last = Last("start", "", NoOutcome)

\* main() calls initialize_session before anything else: the other handlers
\* run in a session that holds every key.
Initialized == SessionKeys \subseteq DOMAIN session_state

\* main() with no user action: initialize_session.
InitializeSession ==
    \E id \in SessionIds :
        /\ session_state' = initialize_session(session_state, id)
        /\ last' = Last("initialize_session", "", NoOutcome)
        /\ UNCHANGED environ

\* main() with the Process Document button pressed.
ProcessDocument ==
    \E file_type \in FileTypes, build \in BuildOutcomes :
        \E file \in FilesFor(file_type) :
            LET out == process_document(session_state, environ, file, file_type, build)
            IN /\ Initialized
               /\ session_state' = out.state
               /\ last' = Last("process_document", file_type, out)
               /\ UNCHANGED environ

\* main() with a chat input.
Chat ==
    \E user_input \in Questions, llm \in LlmOutcomes, render \in Renders :
        LET out == display_chat_interface(session_state, user_input, llm, render)
        IN /\ Initialized
           /\ Len(get_chat_history(out.state)) <= MaxTurns
           /\ session_state' = out.state
           /\ last' = Last("chat", user_input, out)
           /\ UNCHANGED environ

\* main() with the Clear Chat History button pressed.
ClearChatHistory ==
    /\ Initialized
    /\ session_state' = clear_chat_history(session_state)
    /\ last' = Last("clear_chat_history", "", NoOutcome)
    /\ UNCHANGED environ

\* The settings section of setup_sidebar for one widget: the layout is stored
\* only when the radio differs from the stored layout (side-by-side where none
\* is stored), the value of a slider is stored on every run.
sidebar_setting(S, name, value) ==
    IF name = "layout" /\ get_user_setting(S, "layout", "side-by-side") = value
    THEN S
    ELSE update_user_setting(S, name, value)

\* setup_sidebar: a slider or the radio set to a value.
UpdateUserSetting ==
    \E name \in SettingNames :
        \E value \in SidebarValues(name) :
            /\ Initialized
            /\ session_state' = sidebar_setting(session_state, name, value)
            /\ last' = Last("update_user_setting", name, NoOutcome)
            /\ UNCHANGED environ

Next ==
    \/ InitializeSession
    \/ ProcessDocument
    \/ Chat
    \/ ClearChatHistory
    \/ UpdateUserSetting

\* The application, driven through its user interface.
Spec == Init /\ [][Next]_vars

\* --------------------------------------- the SessionManager, called directly

\* add_message, called directly: it appends to the list the session holds.
AddMessage ==
    \E role \in Roles, content \in Contents :
        /\ "chat_history" \in DOMAIN session_state
        /\ Len(get_chat_history(session_state)) < MaxMessages
        /\ session_state' = add_message(session_state, role, content)
        /\ last' = Last("add_message", role, NoOutcome)
        /\ UNCHANGED environ

\* get_chat_history_for_rag, called directly on a session that has a transcript.
GetChatHistoryForRag ==
    /\ "chat_history" \in DOMAIN session_state
    /\ last' = Last("get_chat_history_for_rag", "",
                    [NoOutcome EXCEPT !.pairs = get_chat_history_for_rag(session_state)])
    /\ UNCHANGED <<environ, session_state>>

SetUserSetting ==
    \E name \in SettingNames :
        \E value \in SettingValues(name) :
            /\ session_state' = update_user_setting(session_state, name, value)
            /\ last' = Last("update_user_setting", name, NoOutcome)
            /\ UNCHANGED environ

\* store_ocr_results, called directly: no key need exist.
StoreOcrResults ==
    \E results \in StoredTexts :
        /\ session_state' = store_ocr_results(session_state, results)
        /\ last' = Last("store_ocr_results", results, NoOutcome)
        /\ UNCHANGED environ

\* set_rag_initialized, called directly: no key need exist.
SetRagInitialized ==
    \E value \in BOOLEAN :
        /\ session_state' = set_rag_initialized(session_state, value)
        /\ last' = Last("set_rag_initialized", "", NoOutcome)
        /\ UNCHANGED environ

\* store_uploaded_file, called directly on a session that has its dict.
StoreUploadedFile ==
    \E file_id \in FileIds, file_info \in FileInfos :
        /\ "uploaded_files" \in DOMAIN session_state
        /\ session_state' = store_uploaded_file(session_state, file_id, file_info)
        /\ last' = Last("store_uploaded_file", file_id, NoOutcome)
        /\ UNCHANGED environ

\* clear_chat_history, called directly: no key need exist.
ClearChat ==
    /\ session_state' = clear_chat_history(session_state)
    /\ last' = Last("clear_chat_history", "", NoOutcome)
    /\ UNCHANGED environ

NextStore ==
    \/ InitializeSession
    \/ AddMessage
    \/ GetChatHistoryForRag
    \/ ClearChat
    \/ SetUserSetting
    \/ StoreOcrResults
    \/ SetRagInitialized
    \/ StoreUploadedFile

\* The SessionManager reads no environment variable: one environment.
InitStore == Init /\ environ = {"MISTRAL_API_KEY", "GOOGLE_API_KEY"}

\* The session state store, its operations called in any order.
SpecStore == InitStore /\ [][NextStore]_vars

\* ------------------------------------------- the processors, called directly

\* The page lists an OCR response may carry.
PageLists ==
    {<<>>,
     <<[markdown |-> "Page one text"], [markdown |-> "Page two text"]>>,
     <<[text |-> "P1"], [index |-> 1], [markdown |-> "M3", text |-> "P3"]>>,
     <<[index |-> 0]>>}

\* The nested documents an OCR response may carry: with a text, without.
Documents == {[text |-> "document text"], [id |-> "doc-1"]}

\* The fields of a response: those of present among the four the decoding
\* looks at, and a field it does not look at.
FieldsOf(present, pages, document) ==
    [k \in present \cup {"usage"} |->
        CASE k = "pages" -> pages
          [] k = "text" -> "flat text"
          [] k = "document" -> document
          [] k = "content" -> "content text"
          [] OTHER -> "1 page"]

ResponseFields ==
    {FieldsOf(present, pages, document) :
        present \in SUBSET {"pages", "text", "document", "content"},
        pages \in PageLists, document \in Documents}

\* The responses of the OCR service, in both representations.
OcrResponses ==
    {ObjectResponse(f) : f \in ResponseFields}
        \cup {DictResponse(f) : f \in ResponseFields}

\* The files given to process_image and process_pdf.
OcrFiles ==
    {UploadedFile(u, o, DocRaises) :
        u \in Uploads, o \in {OcrRaises} \cup {OcrAnswers(r) : r \in OcrResponses}}

PdfRaises == [raises |-> TRUE, error |-> "EOF marker not found", pages |-> <<>>]

PdfParses(pages) == [raises |-> FALSE, error |-> "", pages |-> pages]

\* The files given to extract_text_from_pdf.
PdfFiles ==
    {[upload |-> u, pdf |-> d] :
        u \in Uploads, d \in {PdfRaises, PdfParses(<<"T4", "T5">>), PdfParses(<<>>)}}

\* The files given to extract_text_from_docx.
DocxFiles ==
    {UploadedFile(u, OcrRaises, d) :
        u \in Uploads,
        d \in DocOutcomes \cup {DocParses(<<"T3">>, << << <<"c1", "c2">>, <<"c3">> >> >>)}}

\* The file types a caller of extract_text may declare.
DeclaredTypes == {"pdf", "PDF", "image", "png", "docx", "txt"}

\* The characters the patterns of the stripping mention, a letter, a digit,
\* a space and a newline.
MarkdownChars ==
    {"#", "*", "_", "|", "[", "]", "(", ")", BackTick, "a", "\n", " ", "-", "+", "1", "."}

RECURSIVE Texts(_)
\* The texts of at most n characters.
Texts(n) ==
    IF n = 0 THEN {""}
    ELSE Texts(n - 1) \cup {t \o c : t \in Texts(n - 1), c \in MarkdownChars}

\* An image the OCR service reads the text in.
ImageOf(text) ==
    UploadedFile("ok", OcrAnswers(ObjectResponse([text |-> text])), DocRaises)

\* The texts given to RAGProcessor.process_document: none, empty, of
\* whitespace only, and with content.
IndexedTexts == {None, "", " ", "\n \n", "T1", " T2 "}

\* The processors process_document is called on: one just made, and one that
\* holds the index of an earlier document.
Processors ==
    {RAGProcessor_init({"GOOGLE_API_KEY"}).value,
     [RAGProcessor_init({"GOOGLE_API_KEY"}).value
          EXCEPT !.vector_store = "T0", !.retrieval_chain = "T0"]}

\* What the last call on a processor was, what it was given and how it ended.
Called(op, input, result) == [op |-> op, input |-> input, result |-> result]

InitExtract ==
    /\ environ \in Environments
    /\ session_state = [k \in {} |-> None]
    /\ last = Called("start", None, Exit(Return(None), {}))

\* The methods are called on a processor just made: an OCRProcessor or a
\* RAGProcessor exists only where its constructor found the key.
HasOcrProcessor == last.op = "start" /\ ~OCRProcessor_init(environ).raised

HasRagProcessor == last.op = "start" /\ ~RAGProcessor_init(environ).raised

ProcessImage ==
    /\ HasOcrProcessor
    /\ \E image_file \in OcrFiles :
           last' = Called("process_image", image_file, process_image(image_file))
    /\ UNCHANGED <<environ, session_state>>

ProcessPdf ==
    /\ HasOcrProcessor
    /\ \E pdf_file \in OcrFiles :
           last' = Called("process_pdf", pdf_file, process_pdf(pdf_file))
    /\ UNCHANGED <<environ, session_state>>

ExtractTextFromPdf ==
    /\ HasRagProcessor
    /\ \E pdf_file \in PdfFiles :
           last' = Called("extract_text_from_pdf", pdf_file,
                         extract_text_from_pdf(pdf_file))
    /\ UNCHANGED <<environ, session_state>>

ExtractTextFromDocx ==
    /\ HasRagProcessor
    /\ \E docx_file \in DocxFiles :
           last' = Called("extract_text_from_docx", docx_file,
                         extract_text_from_docx(docx_file))
    /\ UNCHANGED <<environ, session_state>>

ExtractTextArgs(file, file_type, strip_markdown) ==
    [file |-> file, file_type |-> file_type, strip_markdown |-> strip_markdown]

ExtractText ==
    /\ HasOcrProcessor
    /\ \E file \in OcrFiles, file_type \in DeclaredTypes, strip_markdown \in BOOLEAN :
           last' = Called("extract_text",
                         ExtractTextArgs(file, file_type, strip_markdown),
                         extract_text(file, file_type, strip_markdown))
    /\ UNCHANGED <<environ, session_state>>

\* extract_text(file, "image", strip_markdown=True) on an image of a text
ExtractTextStripped ==
    /\ HasOcrProcessor
    /\ \E text \in Texts(MaxTextLen) :
           last' = Called("extract_text",
                         ExtractTextArgs(ImageOf(text), "image", TRUE),
                         extract_text(ImageOf(text), "image", TRUE))
    /\ UNCHANGED <<environ, session_state>>

RagProcessDocument ==
    /\ HasRagProcessor
    /\ \E self \in Processors, text \in IndexedTexts, build \in BuildOutcomes :
           last' = Called("rag_process_document",
                         [self |-> self, text |-> text, build |-> build],
                         rag_process_document(self, text, build))
    /\ UNCHANGED <<environ, session_state>>

ExtractTextFromOcrResponse ==
    /\ HasOcrProcessor
    /\ \E ocr_response \in OcrResponses :
           last' = Called("extract_text_from_ocr_response", ocr_response,
                         extract_text_from_ocr_response(ocr_response))
    /\ UNCHANGED <<environ, session_state>>

NextExtract ==
    \/ RagProcessDocument
    \/ ExtractTextFromOcrResponse
    \/ ProcessImage
    \/ ProcessPdf
    \/ ExtractTextFromPdf
    \/ ExtractTextFromDocx
    \/ ExtractText
    \/ ExtractTextStripped

\* The OCR and RAG processors: one method called on a processor just made.
SpecExtract == InitExtract /\ [][NextExtract]_vars

\* ---------------------------------------------------------------- the claims

\* The session holds a built index.
HasIndex(St) ==
    "rag_processor" \in DOMAIN St /\ Truthy(St.rag_processor.retrieval_chain)

\* The condition under which the chat asks the query engine.
ChatReady(St) == is_rag_initialized(St) /\ "rag_processor" \in DOMAIN St

\* A session that holds a successfully processed document.
HoldsDocument(St) == Truthy(get_ocr_results(St)) /\ is_rag_initialized(St)

SameExcept(A, B, keys) ==
    DOMAIN A = DOMAIN B /\ \A k \in (DOMAIN A) \ keys : A[k] = B[k]

\* user, assistant, user, ... from the first message on
Alternates(messages) ==
    \A i \in 1..Len(messages) :
        messages[i].role = (IF i % 2 = 1 THEN "user" ELSE "assistant")

\* The pairs at the positions (0,1), (2,3), ... of a transcript.
PairsAt(messages) ==
    [k \in 1..(Len(messages) \div 2) |->
        <<messages[2 * k - 1].content, messages[2 * k].content>>]

\* The submission got past the extraction: its text was stored.
ExtractionSucceeded(l) ==
    /\ Len(l.status) >= 2
    /\ l.status[2].label \in {"OCR processing complete!", "Text extraction complete!"}

\* C1: when a session holds a processed document (a text, index_ready true)
\* and the extraction of a newly submitted document fails, process_document
\* leaves extracted_text and index_ready as they were.
C1_ExtractionFailureKeepsDocument ==
    [][(/\ Initialized
        /\ HoldsDocument(session_state)
        /\ last'.op = "process_document"
        /\ last'.branch = "extraction_raised")
       => (/\ get_ocr_results(session_state') = get_ocr_results(session_state)
           /\ is_rag_initialized(session_state'))]_vars

\* C1's case: a submission whose extraction failed on an OCR response of no
\* recognizable shape, in a session that held a document when it started.
C1_Witness ==
    /\ last.op = "process_document"
    /\ last.branch = "extraction_raised"
    /\ last.error = "Error processing document: "
                    \o UnrecognizedResponse(ObjectResponse([usage |-> "1 page"]))
    /\ last.status[1].rag_initialized
    /\ HoldsDocument(session_state)

\* C2: when a document is submitted in a Ready session, its extraction
\* succeeds and the index build fails, extracted_text, index_ready, the stored
\* index and the transcript are what they were before the submission.
C2_IndexingFailureKeepsSession ==
    [][(/\ Initialized
        /\ HoldsDocument(session_state)
        /\ HasIndex(session_state)
        /\ last'.op = "process_document"
        /\ last'.branch = "indexing_raised"
        /\ ExtractionSucceeded(last'))
       => (/\ get_ocr_results(session_state') = get_ocr_results(session_state)
           /\ is_rag_initialized(session_state') = is_rag_initialized(session_state)
           /\ session_state'.rag_processor = session_state.rag_processor
           /\ get_chat_history(session_state') = get_chat_history(session_state))]_vars

\* C3: the transcript is always a strict alternation user, assistant, user,
\* ... that begins with a user turn.
C3_TranscriptAlternates ==
    Initialized => Alternates(get_chat_history(session_state))

\* C4: of a transcript that alternates user, assistant, ... from a user turn
\* on, get_chat_history_for_rag gives exactly the (user, assistant) content
\* pairs at the positions (0,1), (2,3), ... in order; a trailing user turn
\* gives no pair.
C4_PairsOfAlternatingTranscript ==
    (last.op = "get_chat_history_for_rag" /\ Alternates(get_chat_history(session_state)))
        => last.pairs = PairsAt(get_chat_history(session_state))

\* C4's case: the pairs of [user "What is X?", assistant "X is Y.", user
\* "What is X?"] were derived, and they are the one pair before the trailing
\* user turn.
C4_Witness ==
    /\ last.op = "get_chat_history_for_rag"
    /\ get_chat_history(session_state) =
           <<Message("user", "What is X?"), Message("assistant", "X is Y."),
             Message("user", "What is X?")>>
    /\ last.pairs = << <<"What is X?", "X is Y.">> >>

\* C5 as stated: a chat question in a session with no processed document
\* leaves the transcript as it was.
C5_QueryBeforeReadyKeepsTranscript ==
    [][(/\ Initialized
        /\ ~ChatReady(session_state)
        /\ last'.op = "chat")
       => get_chat_history(session_state') = get_chat_history(session_state)]_vars

\* C5 as amended: a chat question in a session with no processed document
\* does not reach the query engine; the transcript gains the question as a
\* user turn and the notice "Please upload and process a document first." as
\* an assistant turn, and no other field of the session changes.
C5_QueryBeforeReadyRecordsNotice ==
    [][(/\ Initialized
        /\ ~ChatReady(session_state)
        /\ last'.op = "chat")
       => (/\ last'.branch = "not_ready"
           /\ last'.call = NoLlmCall
           /\ get_chat_history(session_state') =
                  get_chat_history(session_state)
                      \o <<Message("user", last'.input),
                           Message("assistant", NotReadyMessage)>>
           /\ SameExcept(session_state, session_state', {"chat_history"}))]_vars

\* C5's case: a chat question was asked in a session with no index.
C5_Witness ==
    /\ last.op = "chat"
    /\ last.branch = "not_ready"
    /\ ~ChatReady(session_state)
    /\ Len(get_chat_history(session_state)) >= 2

\* C6: between user actions the session holds a built index if and only if
\* index_ready (rag_initialized) is true.
C6_IndexIffReady ==
    HasIndex(session_state)
        <=> ("rag_initialized" \in DOMAIN session_state
             /\ is_rag_initialized(session_state))

\* C6's case: a Ready session in which a later submission failed while
\* its index was being built.
C6_Witness ==
    /\ last.op = "process_document"
    /\ last.branch = "indexing_raised"
    /\ HasIndex(session_state)
    /\ is_rag_initialized(session_state)

\* C7: index_ready is false while a submitted document is being extracted
\* and while it is being indexed.
C7_NotReadyWhileProcessing ==
    last.op = "process_document"
        => \A i \in 1..Len(last.status) :
               last.status[i].label \in
                   {"Extracting text with OCR...", "Initializing RAG system..."}
                   => ~last.status[i].rag_initialized

\* C8: a query reaches the language model with the temperature and the
\* max_tokens the session's settings hold at the time of the query.
C8_QueryUsesSessionSettings ==
    (last.op = "chat" /\ last.call # NoLlmCall)
        => /\ last.call.temperature =
                  get_user_setting(session_state, "temperature", DefaultTemperature)
           /\ last.call.max_output_tokens =
                  get_user_setting(session_state, "max_tokens", DefaultMaxTokens)

MinTemperature == 0

MaxTemperature == 10

MinMaxTokens == 256

MaxMaxTokens == 4096

Layouts == {"side-by-side", "stacked"}

\* C9: after any sequence of update_user_setting calls, get_user_setting
\* gives a value in range for each recognized key: temperature in [0.0, 1.0],
\* max_tokens in [256, 4096], layout side-by-side or stacked.
C9_SettingsInRange ==
    "user_settings" \in DOMAIN session_state
        => /\ get_user_setting(session_state, "temperature", DefaultTemperature)
                  \in MinTemperature..MaxTemperature
           /\ get_user_setting(session_state, "max_tokens", DefaultMaxTokens)
                  \in MinMaxTokens..MaxMaxTokens
           /\ get_user_setting(session_state, "layout", "side-by-side") \in Layouts

\* C10: when the query engine raises during a chat action in a Ready session,
\* the transcript gains the question as a user turn and the failure notice as
\* one assistant turn, and no other field of the session changes.
C10_FailedQueryIsRecorded ==
    [][(/\ Initialized
        /\ ChatReady(session_state)
        /\ last'.op = "chat"
        /\ last'.branch = "query_raised")
       => (/\ last'.error = ErrorMessage(LlmRaises.error)
           /\ get_chat_history(session_state') =
                  get_chat_history(session_state)
                      \o <<Message("user", last'.input),
                           Message("assistant", last'.error)>>
           /\ SameExcept(session_state, session_state', {"chat_history"}))]_vars

\* C10's case: the query engine raised in a Ready session.
C10_Witness ==
    /\ last.op = "chat"
    /\ last.branch = "query_raised"
    /\ ChatReady(session_state)
    /\ HasIndex(session_state)

\* C11: clear_chat_history, in any reachable state, leaves the transcript
\* empty, so that get_chat_history_for_rag then returns the empty sequence, and
\* leaves extracted_text, index_ready, the stored index, session_id and the
\* settings as they were.
C11_ClearEmptiesTranscriptOnly ==
    [][(Initialized /\ last'.op = "clear_chat_history")
       => (/\ get_chat_history(session_state') = <<>>
           /\ get_chat_history_for_rag(session_state') = <<>>
           /\ SameExcept(session_state, session_state', {"chat_history"}))]_vars

\* The transcript was cleared in a Ready session whose settings were changed.
C11_Witness ==
    /\ last.op = "clear_chat_history"
    /\ get_chat_history_for_rag(session_state) = <<>>
    /\ HasIndex(session_state)
    /\ HoldsDocument(session_state)
    /\ session_state.user_settings # DefaultUserSettings

\* The paths of the chat on which RAGProcessor.query was called.
QueryBranches == {"query_raised", "write_raised", "sources_raised", "answered"}

\* C12: RAGProcessor.query is called only in a session whose index_ready is
\* true and which holds a stored index, and the chain it asks is the one of the
\* session's stored processor.
C12_QueryOnlyWhenReady ==
    [][(Initialized /\ last'.op = "chat" /\ last'.branch \in QueryBranches)
       => (/\ is_rag_initialized(session_state)
           /\ HasIndex(session_state)
           /\ last'.call.index = session_state.rag_processor.retrieval_chain
           /\ last'.call.index = session_state'.rag_processor.retrieval_chain)]_vars

\* A question was answered from the index of the document processed last,
\* after an earlier document had been indexed and asked about.
C12_Witness ==
    /\ last.op = "chat"
    /\ last.branch = "answered"
    /\ Len(get_chat_history(session_state)) = 4
    /\ HasIndex(session_state)
    /\ last.call.index = "T3\n"
    /\ last.call.index = session_state.rag_processor.retrieval_chain

\* The calls that stage the upload in a temporary file.
ExtractionCalls ==
    {"process_image", "process_pdf", "extract_text_from_pdf", "extract_text_from_docx"}

\* C13: when an extraction call (process_image, process_pdf,
\* extract_text_from_pdf, extract_text_from_docx) exits, on any path, the
\* temporary file it staged the upload in no longer exists.
C13_TempFilesRemoved ==
    last.op \in ExtractionCalls => last.result.temp_files = {}

\* C14: the text extract_text returns with strip_markdown set is a fixed point
\* of the stripping: applying the seven substitutions to it again changes
\* nothing, strip(strip(x)) = strip(x).
C14_StripIsIdempotent ==
    (/\ last.op = "extract_text"
     /\ last.input.strip_markdown
     /\ ~last.result.raised)
    => strip_markdown_text(last.result.value) = last.result.value

\* C15: initialize_session on a session that exists changes no field; on a
\* new session it creates an empty transcript, no extracted text, index_ready
\* false, a fresh session_id and the default settings; and no operation
\* changes the session_id of a session that exists.
C15_InitializeIsIdempotent ==
    [][/\ (Initialized /\ last'.op = "initialize_session")
          => session_state' = session_state
       /\ (~Initialized /\ last'.op = "initialize_session")
          => (/\ get_chat_history(session_state') = <<>>
              /\ get_ocr_results(session_state') = None
              /\ ~is_rag_initialized(session_state')
              /\ session_state'.session_id \in SessionIds
              /\ session_state'.user_settings = DefaultUserSettings
              /\ "rag_processor" \notin DOMAIN session_state')
       /\ Initialized
          => (/\ Initialized'
              /\ session_state'.session_id = session_state.session_id)]_vars

\* initialize_session ran on a session that holds a document, an index, a
\* transcript and changed settings.
C15_Witness ==
    /\ last.op = "initialize_session"
    /\ HoldsDocument(session_state)
    /\ HasIndex(session_state)
    /\ Len(get_chat_history(session_state)) >= 2
    /\ session_state.user_settings # DefaultUserSettings

\* The kinds process_document has a branch for.
SupportedKinds == {"image", "pdf", "docx"}

\* C16: process_document on a document whose declared kind is not supported
\* fails with an unsupported-kind error, makes no index-building call and
\* leaves the session as it was.
C16_UnsupportedKindFails ==
    [][(/\ Initialized
        /\ last'.op = "process_document"
        /\ last'.input \notin SupportedKinds)
       => (/\ ~last'.returned
           /\ last'.error = "Error processing document: Unsupported file type: "
                                \o last'.input
           /\ last'.branch = "extraction_raised"
           /\ session_state' = session_state)]_vars

\* A text that is absent, empty or of whitespace only.
IsBlank(text) == text = None \/ RunOf(text, 1, Whitespace) = Len(text)

\* C17: RAGProcessor.process_document with an empty or whitespace-only text
\* fails before the embedding call is attempted and leaves vector_store and
\* retrieval_chain as they were.
C17_BlankTextRejected ==
    (last.op = "rag_process_document" /\ IsBlank(last.input.text))
    => (/\ last.result.raised
        /\ "FAISS.from_texts" \notin {last.result.calls[i] :
                                         i \in 1..Len(last.result.calls)}
        /\ last.result.value.vector_store = last.input.self.vector_store
        /\ last.result.value.retrieval_chain = last.input.self.retrieval_chain)

\* The stored processor, as a set: empty where the session holds none.
StoredIndex(St) == IF "rag_processor" \in DOMAIN St THEN {St.rag_processor} ELSE {}

\* A processor whose vector store and chain were both built, from this text.
CompleteIndexOf(processor, text) ==
    /\ Truthy(text)
    /\ processor.vector_store = text
    /\ processor.retrieval_chain = text

\* C18: a document submission either leaves the stored index as it was or
\* replaces it by a completely built index of the text the submission leaves in
\* the session; a submission that fails leaves the previous index in place and
\* as usable for queries as it was.
C18_IndexReplacedWholeOrKept ==
    [][(Initialized /\ last'.op = "process_document")
       => (/\ \/ StoredIndex(session_state') = StoredIndex(session_state)
              \/ (/\ last'.returned
                  /\ HasIndex(session_state')
                  /\ CompleteIndexOf(session_state'.rag_processor,
                                     get_ocr_results(session_state')))
           /\ ~last'.returned
              => (/\ StoredIndex(session_state') = StoredIndex(session_state)
                  /\ ChatReady(session_state') = ChatReady(session_state)))]_vars

\* A submission whose index build failed in a Ready session: the index of the
\* earlier document is still the stored one.
C18_Witness ==
    /\ last.op = "process_document"
    /\ last.branch = "indexing_raised"
    /\ ChatReady(session_state)
    /\ HasIndex(session_state)
    /\ session_state.rag_processor.retrieval_chain # get_ocr_results(session_state)
    /\ CompleteIndexOf(session_state.rag_processor, "T1")

\* The decoding by the one order page list, flat text, nested document text,
\* content, whatever the representation of the response.
PriorityDecode(r) ==
    LET f == r.fields
    IN IF "pages" \in DOMAIN f /\ PageTexts(f.pages) # <<>>
       THEN Return(Join(PageTexts(f.pages), "\n\n"))
       ELSE IF "text" \in DOMAIN f THEN Return(f.text)
       ELSE IF "document" \in DOMAIN f /\ "text" \in DOMAIN f.document
       THEN Return(f.document.text)
       ELSE IF "content" \in DOMAIN f THEN Return(f.content)
       ELSE Raise(UnrecognizedResponse(r))

\* The response the last call decoded, as a set: empty when it decoded none.
DecodedResponse ==
    IF last.op = "extract_text_from_ocr_response" THEN {last.input}
    ELSE IF /\ last.op \in {"process_image", "process_pdf"}
            /\ last.input.upload = "ok"
            /\ ~last.input.ocr.raises
    THEN {last.input.ocr.response}
    ELSE {}

\* C19: every OCR response, attribute-style object or dictionary, is decoded
\* by the one priority order page list, flat text, nested document text,
\* content; a response of no such shape fails with the extraction error.
C19_OnePriorityOrder ==
    \A r \in DecodedResponse :
        /\ last.result.raised = PriorityDecode(r).raised
        /\ last.result.value = PriorityDecode(r).value
        /\ last.result.error = PriorityDecode(r).error

\* A page that carries a fragment, and the fragment: its markdown if it has
\* one, otherwise its text.
HasFragment(page) == "markdown" \in DOMAIN page \/ "text" \in DOMAIN page

Fragment(page) == IF "markdown" \in DOMAIN page THEN page.markdown ELSE page.text

Fragments(pages) ==
    LET carrying == SelectSeq(pages, HasFragment)
    IN [i \in 1..Len(carrying) |-> Fragment(carrying[i])]

RECURSIVE Concatenated(_, _)
\* The first n fragments in their order, a blank line between consecutive
\* ones and none before the first or after the last.
Concatenated(fragments, n) ==
    IF n = 0 THEN ""
    ELSE IF n = 1 THEN fragments[1]
    ELSE Concatenated(fragments, n - 1) \o "\n\n" \o fragments[n]

\* The response is decoded as a page list: it has pages that carry fragments
\* and, where it is a dictionary, none of the shapes tried before the pages.
IsPageList(r) ==
    /\ "pages" \in DOMAIN r.fields
    /\ Fragments(r.fields.pages) # <<>>
    /\ r.repr = "dict" => DOMAIN r.fields \subseteq {"pages", "usage"}

\* C20: the text of a page-list response is the pages' fragments (markdown if
\* the page has one, otherwise text) in page order, with exactly one "\n\n"
\* between consecutive fragments and none at the ends.
C20_PagesJoinedByBlankLine ==
    \A r \in DecodedResponse :
        IsPageList(r)
        => (/\ ~last.result.raised
            /\ last.result.value =
                   Concatenated(Fragments(r.fields.pages), Len(Fragments(r.fields.pages))))

\* process_image decoded the two markdown pages of the scenario, in a response
\* that carries a flat text as well.
C20_Witness ==
    /\ last.op = "process_image"
    /\ last.input.upload = "ok"
    /\ ~last.input.ocr.raises
    /\ last.input.ocr.response.repr = "object"
    /\ DOMAIN last.input.ocr.response.fields = {"pages", "text", "usage"}
    /\ last.input.ocr.response.fields.pages =
           <<[markdown |-> "Page one text"], [markdown |-> "Page two text"]>>
    /\ last.result.value = "Page one text\n\nPage two text"

\* C21: where the OCR credential is absent from the environment the
\* application fails at startup: no session takes a document submission or a
\* chat action, and the absence is never the error of a submission.
C21_MissingCredentialFailsAtStartup ==
    "MISTRAL_API_KEY" \notin environ
    => (/\ last.op \notin {"process_document", "chat"}
        /\ last.error # "Error processing document: " \o OCRProcessor_init(environ).error)

\* C22: process_document returns True exactly when, in this run, an index was
\* built from the text now in extracted_text, index_ready is true and the
\* stored index is the one built in this run; and therefore every query runs
\* against an index built from the current extracted_text.
C22_TrueReturnMeansCurrentIndex ==
    [][/\ (Initialized /\ last'.op = "process_document")
          => (last'.returned
              <=> (/\ last'.branch = "complete"
                   /\ is_rag_initialized(session_state')
                   /\ HasIndex(session_state')
                   /\ CompleteIndexOf(session_state'.rag_processor,
                                      get_ocr_results(session_state'))))
       /\ (Initialized /\ last'.op = "chat" /\ last'.branch \in QueryBranches)
          => last'.call.index = get_ocr_results(session_state)]_vars

\* C23: every run of process_document returns True or shows an error message;
\* a run whose extraction succeeds with an empty text does not return False
\* without a message and leaves extracted_text as it was.
C23_NoSilentFailure ==
    [][(Initialized /\ last'.op = "process_document")
       => (/\ last'.returned \/ last'.error # ""
           /\ (ExtractionSucceeded(last') /\ last'.branch = "no_text")
              => get_ocr_results(session_state') = get_ocr_results(session_state))]_vars
====
